---- MODULE Spec2Model ----
(***************************************************************************)
(* Model of eof/scihubclient.py: parsing of orbit product identifiers into *)
(* validity records (get_validity_info), selection of the covering record  *)
(* with the latest generation date (lastval_cover), and the orchestration  *)
(* around them (ScihubGnssClient and the __main__ script).                 *)
(*                                                                         *)
(* A str is a sequence of one-character strings.  A datetime is the tuple  *)
(* <<year, month, day, hour, minute, second>>.                             *)
(***************************************************************************)
EXTENDS Integers, Sequences, FiniteSets, TLC

VARIABLES
    products,      \* get_validity_info: the batch of identifiers
    out,           \* get_validity_info: outcome of the call
    t0, t1, data,  \* lastval_cover: arguments
    candidates,    \* lastval_cover: the local list after the filter
    selected,      \* lastval_cover: outcome of the call
    pc,            \* position of the running call / script
    args_products, \* __main__: args.products
    idx,           \* __main__: number of products already processed
    query,         \* __main__: the accumulated dict, key -> identifier
    api_log,       \* arguments of the GnssAPI.query calls, in call order
    answer,        \* the items GnssAPI.query returned to the pending call
    select_log,    \* (t0, t1) passed to _select_orbit, in call order
    last,          \* outcome of the latest query_orbit_for_product call
    error          \* exception that terminated the script

vars == <<products, out, t0, t1, data, candidates, selected, pc,
          args_products, idx, query, api_log, answer, select_log, last,
          error>>

-----------------------------------------------------------------------------
(* Bounds *)

MaxBatch == 3
MaxData == 3
MaxProducts == 2

-----------------------------------------------------------------------------
(* Characters *)

Digits == {"0", "1", "2", "3", "4", "5", "6", "7", "8", "9"}

Letters == {"A", "B", "C", "D", "E", "F", "G", "H", "I", "J", "K", "L", "M",
            "N", "O", "P", "Q", "R", "S", "T", "U", "V", "W", "X", "Y", "Z"}

\* \d of the regular expression
IsDigit(c) == c \in Digits

WordChars == Digits \cup Letters \cup {"_"}

\* \w of the regular expression
IsWord(c) == c \in WordChars

DigitChars == <<"0", "1", "2", "3", "4", "5", "6", "7", "8", "9">>

\* int() of one decimal digit
DigitVal(c) == CHOOSE n \in 0..9 : DigitChars[n + 1] = c

\* int() of the two digits s[i], s[i+1]
Int2(s, i) == 10 * DigitVal(s[i]) + DigitVal(s[i + 1])

\* int() of the four digits s[i] .. s[i+3]
Int4(s, i) == 100 * Int2(s, i) + Int2(s, i + 2)

Max(S) == CHOOSE x \in S : \A y \in S : y <= x

-----------------------------------------------------------------------------
(* datetime *)

IsLeap(y) == (y % 4 = 0) /\ ((y % 100 # 0) \/ (y % 400 = 0))

DaysInMonth(y, m) ==
    IF m = 2 THEN (IF IsLeap(y) THEN 29 ELSE 28)
    ELSE IF m \in {4, 6, 9, 11} THEN 30 ELSE 31

\* datetime.__lt__: field by field, most significant first
RECURSIVE LtFrom(_, _, _)
LtFrom(a, b, i) ==
    IF i > 6 THEN FALSE
    ELSE IF a[i] # b[i] THEN a[i] < b[i]
    ELSE LtFrom(a, b, i + 1)

DtLt(a, b) == LtFrom(a, b, 1)

\* datetime.__le__
DtLe(a, b) == a = b \/ DtLt(a, b)

\* datetime.__ge__
DtGe(a, b) == DtLe(b, a)

\* datetime - timedelta(days=1)
PrevDay(d) ==
    IF d[3] > 1 THEN <<d[1], d[2], d[3] - 1, d[4], d[5], d[6]>>
    ELSE IF d[2] > 1
         THEN <<d[1], d[2] - 1, DaysInMonth(d[1], d[2] - 1), d[4], d[5], d[6]>>
         ELSE <<d[1] - 1, 12, 31, d[4], d[5], d[6]>>

\* datetime + timedelta(days=1)
NextDay(d) ==
    IF d[3] < DaysInMonth(d[1], d[2])
    THEN <<d[1], d[2], d[3] + 1, d[4], d[5], d[6]>>
    ELSE IF d[2] < 12 THEN <<d[1], d[2] + 1, 1, d[4], d[5], d[6]>>
         ELSE <<d[1] + 1, 1, 1, d[4], d[5], d[6]>>

\* datetime - timedelta(days=n)
RECURSIVE MinusDays(_, _)
MinusDays(d, n) == IF n = 0 THEN d ELSE MinusDays(PrevDay(d), n - 1)

\* datetime + timedelta(days=n)
RECURSIVE PlusDays(_, _)
PlusDays(d, n) == IF n = 0 THEN d ELSE PlusDays(NextDay(d), n - 1)

-----------------------------------------------------------------------------
(* Exceptions *)

\* the base class of each exception class
ExcBase == [ValidityError |-> "ValueError",
            ValueError |-> "Exception",
            OrbitSelectionError |-> "RuntimeError",
            RuntimeError |-> "Exception",
            AssertionError |-> "Exception",
            Exception |-> "BaseException"]

\* issubclass(c, h)
RECURSIVE IsSubclass(_, _)
IsSubclass(c, h) ==
    IF c = h THEN TRUE
    ELSE IF c \in DOMAIN ExcBase THEN IsSubclass(ExcBase[c], h)
    ELSE FALSE

\* whether "except h:" handles an exception of class c
Catches(h, c) == IsSubclass(c, h)

NoExc == [type |-> "", msg |-> "", arg |-> <<>>]

Exc(type, msg, arg) == [type |-> type, msg |-> msg, arg |-> arg]

-----------------------------------------------------------------------------
(* The default pattern of get_validity_info *)

\* \d{8}T\d{6} at position i of s
MatchStamp(s, i) ==
    /\ i + 14 <= Len(s)
    /\ \A k \in 0..7 : IsDigit(s[i + k])
    /\ s[i + 8] = "T"
    /\ \A k \in 9..14 : IsDigit(s[i + k])

\* _(\d{8}T\d{6})_V(\d{8}T\d{6})_(\d{8}T\d{6}) at position p of s
MatchFields(s, p) ==
    /\ p + 48 <= Len(s)
    /\ s[p] = "_"
    /\ MatchStamp(s, p + 1)
    /\ s[p + 16] = "_"
    /\ s[p + 17] = "V"
    /\ MatchStamp(s, p + 18)
    /\ s[p + 33] = "_"
    /\ MatchStamp(s, p + 34)

\* the positions at which S1\w+ can end so that the rest of the pattern
\* matches (pattern.match anchors at the start of s, not at its end)
MatchPositions(s) ==
    {p \in 4..Len(s) :
        /\ s[1] = "S"
        /\ s[2] = "1"
        /\ MatchFields(s, p)
        /\ \A k \in 3..(p - 1) : IsWord(s[k])}

\* \w+ is greedy: the match found is the one with the longest prefix
MatchAt(s) == Max(MatchPositions(s))

\* Group with the start_validity and stop_validity groups exchanged
GroupSwapped(s, name) ==
    LET p == MatchAt(s)
        i == IF name = "generation_date" THEN p + 1
             ELSE IF name = "start_validity" THEN p + 34
             ELSE p + 18
    IN SubSeq(s, i, i + 14)

\* mobj.group(name)
Group(s, name) ==
    LET p == MatchAt(s)
        i == IF name = "generation_date" THEN p + 1
             ELSE IF name = "start_validity" THEN p + 18
             ELSE p + 34
    IN SubSeq(s, i, i + 14)

-----------------------------------------------------------------------------
(* datetime.datetime.strptime(text, DATE_FMT) for a text \d{8}T\d{6} *)

\* number of characters the directives %H, %M, %S consume from x[10..15]
HourWidth(x) == IF Int2(x, 10) <= 23 THEN 2 ELSE 1

MinuteWidth(x, i) == IF DigitVal(x[i]) <= 5 THEN 2 ELSE 1

SecondWidth(x, i) ==
    IF i + 1 <= Len(x) /\ (DigitVal(x[i]) <= 5
                           \/ (x[i] = "6" /\ x[i + 1] \in {"0", "1"}))
    THEN 2 ELSE 1

\* index of the first character left unconverted
TimeEnd(x) ==
    LET m == 10 + HourWidth(x)
        s == m + MinuteWidth(x, m)
    IN s + SecondWidth(x, s)

strptime(x) ==
    LET Y == Int4(x, 1)
        M == Int2(x, 5)
        D == Int2(x, 7)
    IN IF ~(M \in 1..12 /\ D \in 1..31)
       THEN [ok |-> FALSE, value |-> <<>>,
             exc |-> Exc("ValueError", "time data does not match format", x)]
       ELSE IF TimeEnd(x) # 16
       THEN [ok |-> FALSE, value |-> <<>>,
             exc |-> Exc("ValueError", "unconverted data remains",
                         SubSeq(x, TimeEnd(x), 15))]
       ELSE IF Y = 0
       THEN [ok |-> FALSE, value |-> <<>>,
             exc |-> Exc("ValueError", "year 0 is out of range", <<>>)]
       ELSE IF D > DaysInMonth(Y, M)
       THEN [ok |-> FALSE, value |-> <<>>,
             exc |-> Exc("ValueError", "day is out of range for month", <<>>)]
       ELSE IF Int2(x, 14) > 59
       THEN [ok |-> FALSE, value |-> <<>>,
             exc |-> Exc("ValueError", "second must be in 0..59", <<>>)]
       ELSE [ok |-> TRUE,
             value |-> <<Y, M, D, Int2(x, 10), Int2(x, 12), Int2(x, 14)>>,
             exc |-> NoExc]

-----------------------------------------------------------------------------
(* get_validity_info *)

ValidityInfo(product_id, generation_date, start_validity, stop_validity) ==
    [product_id |-> product_id,
     generation_date |-> generation_date,
     start_validity |-> start_validity,
     stop_validity |-> stop_validity]

Returned(v) == [kind |-> "return", value |-> v, exc |-> NoExc]

Raised(e) == [kind |-> "raise", value |-> <<>>, exc |-> e]

NotCalled == [kind |-> "none", value |-> <<>>, exc |-> NoExc]

\* NoMatchError raised as the error of the selection
NoMatchErrorAsValidity(product_id) ==
    Exc("ValidityError", "does not math the regular expression for validity",
        product_id)

\* the error raised when the pattern does not match product_id
NoMatchError(product_id) ==
    Exc("ValueError", "does not math the regular expression for validity",
        product_id)

\* the ValidityInfo of product_id from the three parsed groups, or the
\* exception of the first group (in the order of keys) that failed to parse
MakeInfo(product_id, g, a, b) ==
    IF ~g.ok THEN Raised(g.exc)
    ELSE IF ~a.ok THEN Raised(a.exc)
    ELSE IF ~b.ok THEN Raised(b.exc)
    ELSE Returned(ValidityInfo(product_id, g.value, a.value, b.value))

\* the body of the loop for one product_id: a ValidityInfo or an exception
ParseOne(product_id) ==
    IF MatchPositions(product_id) = {}
    THEN Raised(NoMatchError(product_id))
    ELSE MakeInfo(product_id,
                  strptime(Group(product_id, "generation_date")),
                  strptime(Group(product_id, "start_validity")),
                  strptime(Group(product_id, "stop_validity")))

RECURSIVE ParseFrom(_, _, _)

\* ParseStep that skips an identifier that cannot be parsed
ParseStepSkip(ps, i, acc, r) ==
    IF r.kind = "raise" THEN ParseFrom(ps, i + 1, acc)
    ELSE ParseFrom(ps, i + 1, Append(acc, r.value))

\* the end of one iteration: r is raised, or appended to the list
ParseStep(ps, i, acc, r) ==
    IF r.kind = "raise" THEN r
    ELSE ParseFrom(ps, i + 1, Append(acc, r.value))

\* the loop of get_validity_info from position i with the list out so far
ParseFrom(ps, i, acc) ==
    IF i > Len(ps) THEN Returned(acc)
    ELSE ParseStep(ps, i, acc, ParseOne(ps[i]))

get_validity_info(ps) == ParseFrom(ps, 1, <<>>)

-----------------------------------------------------------------------------
(* lastval_cover *)

\* Covers with strict comparisons on both sides
CoversStrict(item, a, b) ==
    DtLt(item.start_validity, a) /\ DtLt(b, item.stop_validity)

\* Covers with "or" in place of "and"
CoversEither(item, a, b) ==
    DtLe(item.start_validity, a) \/ DtGe(item.stop_validity, b)

\* the condition of the list comprehension
Covers(item, a, b) ==
    DtLe(item.start_validity, a) /\ DtGe(item.stop_validity, b)

\* [item for item in data if ...]: the items kept, in the order of data
RECURSIVE Filter(_, _, _)
Filter(d, a, b) ==
    IF d = <<>> THEN <<>>
    ELSE IF Covers(Head(d), a, b)
         THEN <<Head(d)>> \o Filter(Tail(d), a, b)
         ELSE Filter(Tail(d), a, b)

\* KeyBefore without reverse=True: ascending generation_date
KeyBeforeAscending(x, y) == DtLt(x.generation_date, y.generation_date)

\* the sort key comes before: reverse=True sorts by descending key
KeyBefore(x, y) == DtLt(y.generation_date, x.generation_date)

\* insert x into the sorted list s after every item that does not sort
\* after it (list.sort is stable, also with reverse=True)
RECURSIVE Insert(_, _)
Insert(x, s) ==
    IF s = <<>> THEN <<x>>
    ELSE IF KeyBefore(x, Head(s)) THEN <<x>> \o s
         ELSE <<Head(s)>> \o Insert(x, Tail(s))

\* candidates.sort(key=attrgetter('generation_date'), reverse=True)
RECURSIVE Sort(_)
Sort(s) ==
    IF s = <<>> THEN <<>>
    ELSE Insert(s[Len(s)], Sort(SubSeq(s, 1, Len(s) - 1)))

\* the error raised when no item covers [t0, t1]
NoCoverError(a, b) ==
    Exc("ValidityError",
        "none of the input products completely covers the requested time interval",
        <<a, b>>)

\* SelectFrom without the test for an empty list: candidates[0] fails
SelectFromUnchecked(a, b, c) ==
    IF c = <<>> THEN Raised(Exc("IndexError", "list index out of range", <<>>))
    ELSE Returned(Sort(c)[1].product_id)

\* the end of lastval_cover, c being the candidates
SelectFrom(a, b, c) ==
    IF c = <<>> THEN Raised(NoCoverError(a, b))
    ELSE Returned(Sort(c)[1].product_id)

lastval_cover(a, b, d) == SelectFrom(a, b, Filter(d, a, b))

-----------------------------------------------------------------------------
(* Identifiers in the format <prefix>_<gen>_V<start>_<stop><trailing> *)

Pad2(n) == <<DigitChars[(n \div 10) + 1], DigitChars[(n % 10) + 1]>>

Pad4(n) == Pad2(n \div 100) \o Pad2(n % 100)

\* the compact YYYYMMDDTHHMMSS text of six fields
Compact(f) ==
    Pad4(f[1]) \o Pad2(f[2]) \o Pad2(f[3]) \o <<"T">>
    \o Pad2(f[4]) \o Pad2(f[5]) \o Pad2(f[6])

Build(prefix, gen, start, stop, trailing) ==
    prefix \o <<"_">> \o Compact(gen) \o <<"_", "V">> \o Compact(start)
    \o <<"_">> \o Compact(stop) \o trailing

BuildC(c) == Build(c.prefix, c.gen, c.start, c.stop, c.trailing)

Comp(prefix, gen, start, stop, trailing) ==
    [prefix |-> prefix, gen |-> gen, start |-> start, stop |-> stop,
     trailing |-> trailing]

PrefixPOEORB ==
    <<"S", "1", "A", "_", "A", "U", "X", "_", "P", "O", "E", "O", "R", "B">>

PrefixS2 == <<"S", "2", "A", "_", "A", "U", "X">>

PrefixBare == <<"S", "1">>

SuffixEOF == <<".", "E", "O", "F">>

SuffixWord == <<"_", "X", "9">>

\* the timestamps of the documented example identifier
GenD == <<2020, 1, 1, 12, 0, 0>>
StartD == <<2019, 12, 31, 22, 59, 42>>
StopD == <<2020, 1, 2, 1, 59, 42>>

\* other timestamps
Gen21 == <<2021, 1, 1, 0, 0, 0>>
Start21 == <<2021, 1, 1, 0, 0, 0>>
Stop21 == <<2021, 1, 2, 0, 0, 0>>

\* field tuples that are no calendar date or time of day
Feb30 == <<2020, 2, 30, 12, 0, 0>>
Month13 == <<2020, 13, 1, 12, 0, 0>>
Hour24 == <<2020, 1, 1, 24, 0, 0>>
Year0 == <<0, 1, 1, 0, 0, 0>>
Second60 == <<2020, 1, 1, 12, 0, 60>>

\* a trailing part that itself continues with "_V<start>_<stop>"
SuffixFields ==
    <<"_", "V">> \o Compact(Start21) \o <<"_">> \o Compact(Stop21)

\* identifiers built from datetimes, with a prefix S1\w+
WellBuilt ==
    {Comp(PrefixPOEORB, GenD, StartD, StopD, <<>>),
     Comp(PrefixPOEORB, GenD, StartD, StopD, SuffixEOF),
     Comp(PrefixPOEORB, GenD, StartD, StopD, SuffixWord),
     Comp(PrefixPOEORB, StopD, GenD, StartD, <<>>),
     Comp(BuildC(Comp(PrefixPOEORB, Gen21, Start21, Stop21, <<>>)),
          GenD, StartD, StopD, <<>>),
     Comp(PrefixPOEORB, GenD, StartD, StopD, SuffixFields)}

\* identifiers the default pattern does not match
Unmatched ==
    {Comp(PrefixS2, GenD, StartD, StopD, <<>>),
     Comp(PrefixBare, GenD, StartD, StopD, <<>>)}

\* identifiers the pattern matches whose digits are no datetime
Uncalendar ==
    {Comp(PrefixPOEORB, Feb30, StartD, StopD, <<>>),
     Comp(PrefixPOEORB, GenD, Month13, StopD, <<>>),
     Comp(PrefixPOEORB, GenD, StartD, Hour24, <<>>),
     Comp(PrefixPOEORB, Year0, StartD, StopD, <<>>),
     Comp(PrefixPOEORB, GenD, StartD, Second60, <<>>)}

Identifiers ==
    {BuildC(c) : c \in WellBuilt \cup Unmatched \cup Uncalendar}
    \cup {PrefixPOEORB}

\* the sequences over S of length at most n
SeqUpTo(S, n) == UNION {[1..k -> S] : k \in 0..n}

-----------------------------------------------------------------------------
(* Specification of get_validity_info over batches of identifiers *)

InitParse ==
    /\ products \in SeqUpTo(Identifiers, MaxBatch)
    /\ out = NotCalled
    /\ pc = "call"
    /\ t0 = <<>> /\ t1 = <<>> /\ data = <<>>
    /\ candidates = <<>> /\ selected = NotCalled
    /\ args_products = <<>> /\ idx = 0 /\ query = <<>>
    /\ api_log = <<>> /\ answer = <<>> /\ select_log = <<>>
    /\ last = NotCalled /\ error = NoExc

GetValidityInfo ==
    /\ pc = "call"
    /\ out' = get_validity_info(products)
    /\ pc' = "done"
    /\ UNCHANGED <<products, t0, t1, data, candidates, selected,
                   args_products, idx, query, api_log, answer, select_log,
                   last, error>>

NextParse == GetValidityInfo

SpecParse == InitParse /\ [][NextParse]_vars

-----------------------------------------------------------------------------
(* Specification of lastval_cover over lists of validity records *)

Day1 == <<2020, 6, 1, 0, 0, 0>>
Day2 == <<2020, 6, 2, 0, 0, 0>>
Day2s == <<2020, 6, 2, 0, 0, 1>>
GenA == <<2020, 6, 3, 0, 0, 0>>
GenB == <<2020, 6, 5, 0, 0, 0>>

Targets == {Day1, Day2, Day2s}

Records ==
    {ValidityInfo(i, g, a, b) :
        i \in {<<"X">>, <<"Y">>}, g \in {GenA, GenB},
        a \in {Day1, Day2s}, b \in {Day2, Day2s}}

InitSelect ==
    /\ t0 \in Targets
    /\ t1 \in Targets
    /\ data \in SeqUpTo(Records, MaxData)
    /\ candidates = <<>>
    /\ selected = NotCalled
    /\ pc = "call"
    /\ products = <<>> /\ out = NotCalled
    /\ args_products = <<>> /\ idx = 0 /\ query = <<>>
    /\ api_log = <<>> /\ answer = <<>> /\ select_log = <<>>
    /\ last = NotCalled /\ error = NoExc

LastvalCover ==
    /\ pc = "call"
    /\ candidates' = Filter(data, t0, t1)
    /\ selected' = lastval_cover(t0, t1, data)
    /\ pc' = "done"
    /\ UNCHANGED <<products, out, t0, t1, data, args_products, idx, query,
                   api_log, answer, select_log, last, error>>

NextSelect == LastvalCover

SpecSelect == InitSelect /\ [][NextSelect]_vars

-----------------------------------------------------------------------------
(* ScihubGnssClient *)

\* the default margins, in days
T0 == 1
T1 == 1

\* the keyword arguments query_orbit passes to GnssAPI.query (its two
\* assertions hold of every call made here: the mission is S1A and the
\* product type AUX_POEORB)
query_orbit(a, b, satellite_id, product_type) ==
    [producttype |-> product_type,
     platformserialidentifier |-> Tail(satellite_id),
     date |-> <<a, b>>]

\* an OrderedDict is the sequence of its items [key, identifier]
IdentifiersOf(ps) == [i \in 1..Len(ps) |-> ps[i].identifier]

\* the items of ps whose identifier is product_id, in the order of ps
RECURSIVE WithIdentifier(_, _)
WithIdentifier(ps, product_id) ==
    IF ps = <<>> THEN <<>>
    ELSE IF Head(ps).identifier = product_id
         THEN <<Head(ps)>> \o WithIdentifier(Tail(ps), product_id)
         ELSE WithIdentifier(Tail(ps), product_id)

\* the end of _select_orbit, product_id being the outcome of lastval_cover
SelectItems(ps, product_id) ==
    IF product_id.kind = "raise" THEN product_id
    ELSE Returned(WithIdentifier(ps, product_id.value))

\* the end of _select_orbit, validity_info being the outcome of
\* get_validity_info
SelectValid(ps, a, b, validity_info) ==
    IF validity_info.kind = "raise" THEN validity_info
    ELSE SelectItems(ps, lastval_cover(a, b, validity_info.value))

_select_orbit(ps, a, b) ==
    SelectValid(ps, a, b, get_validity_info(IdentifiersOf(ps)))

\* the date range query_orbit_for_product asks the catalog for
QueryRange(product, t0_margin, t1_margin) ==
    <<MinusDays(product.start_time, t0_margin),
      PlusDays(product.stop_time, t1_margin)>>

\* the query query_orbit_for_product makes through query_orbit
query_orbit_args(range, product) ==
    query_orbit(range[1], range[2], product.mission, "AUX_POEORB")

query_orbit_for(product, t0_margin, t1_margin) ==
    query_orbit_args(QueryRange(product, t0_margin, t1_margin), product)

\* SelectRange with the margins applied
SelectRangeWidened(product, t0_margin, t1_margin) ==
    <<MinusDays(product.start_time, t0_margin),
      PlusDays(product.stop_time, t1_margin)>>

\* the (t0, t1) query_orbit_for_product hands to _select_orbit
SelectRange(product, t0_margin, t1_margin) ==
    <<product.start_time, product.stop_time>>

\* query.update(d): the keys of d are set, the other keys are kept
DictUpdate(q, d) ==
    LET keys == {d[i].key : i \in 1..Len(d)}
    IN [k \in DOMAIN q \cup keys |->
          IF k \in keys
          THEN d[Max({i \in 1..Len(d) : d[i].key = k})].identifier
          ELSE q[k]]

EmptyDict == [k \in {} |-> <<>>]

-----------------------------------------------------------------------------
(* The collaborators: the remote catalog and the Sentinel-1 products *)

PrefixOPER ==
    <<"S", "1", "A", "_", "O", "P", "E", "R", "_", "A", "U", "X", "_",
      "P", "O", "E", "O", "R", "B", "_", "O", "P", "O", "D">>

\* orbit files valid around 2020-06-01 and around 2020-06-02
OrbitJun1 ==
    Build(PrefixOPER, <<2020, 6, 21, 12, 0, 0>>,
          <<2020, 5, 31, 22, 59, 42>>, <<2020, 6, 2, 0, 59, 42>>, <<>>)

OrbitJun1Later ==
    Build(PrefixOPER, <<2020, 7, 1, 12, 0, 0>>,
          <<2020, 5, 31, 22, 59, 42>>, <<2020, 6, 2, 0, 59, 42>>, <<>>)

OrbitJun2 ==
    Build(PrefixOPER, <<2020, 6, 22, 12, 0, 0>>,
          <<2020, 6, 1, 22, 59, 42>>, <<2020, 6, 3, 0, 59, 42>>, <<>>)

Item(key, identifier) == [key |-> key, identifier |-> identifier]

\* the catalog, in key order
Catalog ==
    <<Item("k1", OrbitJun1), Item("k2", OrbitJun1), Item("k3", OrbitJun2),
      Item("k4", OrbitJun1Later), Item("k5", PrefixOPER)>>

\* the item lists GnssAPI.query may answer with
RECURSIVE SubLists(_)
SubLists(s) ==
    IF s = <<>> THEN {<<>>}
    ELSE LET rest == SubLists(Tail(s))
         IN rest \cup {<<Head(s)>> \o r : r \in rest}

Responses == SubLists(Catalog)

S1A == <<"S", "1", "A">>

S1Product(start_time, stop_time, mission) ==
    [start_time |-> start_time, stop_time |-> stop_time, mission |-> mission]

\* the Sentinel-1 products that can be named on the command line
S1Products ==
    {S1Product(<<2020, 6, 1, 6, 0, 0>>, <<2020, 6, 1, 6, 0, 25>>, S1A),
     S1Product(<<2020, 6, 1, 18, 0, 0>>, <<2020, 6, 1, 18, 0, 25>>, S1A),
     S1Product(<<2020, 6, 2, 0, 59, 30>>, <<2020, 6, 2, 0, 59, 55>>, S1A)}

-----------------------------------------------------------------------------
(* Specification of the __main__ script *)

Init ==
    /\ args_products \in SeqUpTo(S1Products, MaxProducts) \ {<<>>}
    /\ idx = 0
    /\ query = EmptyDict
    /\ pc = "query"
    /\ api_log = <<>>
    /\ answer = <<>>
    /\ select_log = <<>>
    /\ last = NotCalled
    /\ error = NoExc
    /\ products = <<>> /\ out = NotCalled
    /\ t0 = <<>> /\ t1 = <<>> /\ data = <<>>
    /\ candidates = <<>> /\ selected = NotCalled

\* query_orbit_for_product, first half: the catalog is asked for the
\* widened range and answers with some of its items
QueryOrbit ==
    /\ pc = "query"
    /\ idx < Len(args_products)
    /\ api_log' = Append(api_log,
                         query_orbit_for(args_products[idx + 1], T0, T1))
    /\ answer' \in Responses
    /\ pc' = "select"
    /\ UNCHANGED <<products, out, t0, t1, data, candidates, selected,
                   args_products, idx, query, select_log, last, error>>

\* query_orbit_for_product, second half: _select_orbit on the answer, and
\* query.update(...) with what it returns
SelectOrbit ==
    /\ pc = "select"
    /\ select_log' = Append(select_log,
                            SelectRange(args_products[idx + 1], T0, T1))
    /\ products' = IdentifiersOf(answer)
    /\ out' = get_validity_info(products')
    /\ last' = _select_orbit(answer, select_log'[Len(select_log')][1],
                             select_log'[Len(select_log')][2])
    /\ IF out'.kind = "return"
       THEN /\ t0' = select_log'[Len(select_log')][1]
            /\ t1' = select_log'[Len(select_log')][2]
            /\ data' = out'.value
            /\ candidates' = Filter(data', t0', t1')
            /\ selected' = lastval_cover(t0', t1', data')
       ELSE UNCHANGED <<t0, t1, data, candidates, selected>>
    /\ IF last'.kind = "return"
       THEN /\ query' = DictUpdate(query, last'.value)
            /\ idx' = idx + 1
            /\ pc' = IF idx + 1 = Len(args_products)
                     THEN "assert" ELSE "query"
            /\ UNCHANGED error
       ELSE /\ error' = last'.exc
            /\ pc' = "failed"
            /\ UNCHANGED <<query, idx>>
    /\ UNCHANGED <<args_products, api_log, answer>>

\* assert len(query) == len(args.products)
AssertLen ==
    /\ pc = "assert"
    /\ IF Cardinality(DOMAIN query) = Len(args_products)
       THEN /\ pc' = "download"
            /\ UNCHANGED error
       ELSE /\ pc' = "failed"
            /\ error' = Exc("AssertionError", "", <<>>)
    /\ UNCHANGED <<products, out, t0, t1, data, candidates, selected,
                   args_products, idx, query, api_log, answer, select_log,
                   last>>

\* client.download_all(query)
DownloadAll ==
    /\ pc = "download"
    /\ pc' = "done"
    /\ UNCHANGED <<products, out, t0, t1, data, candidates, selected,
                   args_products, idx, query, api_log, answer, select_log,
                   last, error>>

Next == QueryOrbit \/ SelectOrbit \/ AssertLen \/ DownloadAll

Spec == Init /\ [][Next]_vars

-----------------------------------------------------------------------------
(* Properties of lastval_cover, under SpecSelect *)

\* the items of a list
Range(s) == {s[i] : i \in 1..Len(s)}

\* closed-interval containment of (a, b) in the validity of r
Contains(r, a, b) ==
    /\ ~DtLt(a, r.start_validity)
    /\ ~DtLt(r.stop_validity, b)

Inverted(r) == DtLt(r.stop_validity, r.start_validity)

\* C1: a record of data is kept as a candidate if and only if
\* start_validity <= t0 and stop_validity >= t1 (equality on either side
\* counts as covering, a strict violation on either side excludes it), the
\* candidates are records of data, and a returned product_id is that of a
\* record of data that covers (t0, t1).
C1_Containment ==
    pc = "done" =>
        /\ \A i \in 1..Len(data) :
             (data[i] \in Range(candidates)) <=> Contains(data[i], t0, t1)
        /\ Range(candidates) \subseteq Range(data)
        /\ selected.kind = "return" =>
             \E i \in 1..Len(data) :
                /\ data[i].product_id = selected.value
                /\ Contains(data[i], t0, t1)

\* a record whose validity equals the target on both sides is kept, one
\* whose stop_validity is one second short is not
C1_Witness ==
    /\ pc = "done"
    /\ t0 = Day1
    /\ t1 = Day2s
    /\ \E i, j \in 1..Len(data) :
         /\ data[i].start_validity = t0
         /\ data[i].stop_validity = t1
         /\ data[i] \in Range(candidates)
         /\ data[j].start_validity = t0
         /\ data[j].stop_validity = Day2
         /\ data[j] \notin Range(candidates)

\* C2: when some record covers (t0, t1), lastval_cover returns the
\* product_id of a covering record whose generation_date is the maximum over
\* the covering records, whatever the order of data.
C2_LatestGeneration ==
    (pc = "done" /\ \E i \in 1..Len(data) : Contains(data[i], t0, t1)) =>
        /\ selected.kind = "return"
        /\ \E i \in 1..Len(data) :
             /\ Contains(data[i], t0, t1)
             /\ data[i].product_id = selected.value
             /\ \A j \in 1..Len(data) :
                  Contains(data[j], t0, t1) =>
                      ~DtLt(data[i].generation_date, data[j].generation_date)

\* two covering records, the later generated one listed last and returned,
\* next to a record that does not cover
C2_Witness ==
    /\ pc = "done"
    /\ Len(data) = 3
    /\ \E i, j, k \in 1..3 :
         /\ i < j
         /\ Contains(data[i], t0, t1)
         /\ Contains(data[j], t0, t1)
         /\ ~Contains(data[k], t0, t1)
         /\ data[i].generation_date = GenA
         /\ data[j].generation_date = GenB
         /\ data[k].generation_date = GenB
         /\ data[i].product_id # data[j].product_id
         /\ selected.kind = "return"
         /\ selected.value = data[j].product_id

\* C3: lastval_cover fails exactly when no record of data covers (t0, t1),
\* data empty included; the failure is a ValidityError that carries t0 and
\* t1, and no identifier is returned with it.
C3_EmptyFails ==
    pc = "done" =>
        /\ (selected.kind = "raise") <=>
               ~(\E i \in 1..Len(data) : Contains(data[i], t0, t1))
        /\ selected.kind = "raise" =>
               /\ selected.exc.type = "ValidityError"
               /\ selected.exc.arg = <<t0, t1>>
               /\ selected.value = <<>>
        /\ selected.kind \in {"raise", "return"}

\* records are given and none of them covers the target
C3_Witness ==
    /\ pc = "done"
    /\ Len(data) = 2
    /\ DtLt(t0, t1)
    /\ selected.kind = "raise"
    /\ selected.exc.type = "ValidityError"

\* C10 as claimed: a record with start_validity > stop_validity, or any
\* record when t0 > t1, is never retained by the filter.
C10_InvertedNeverCovers ==
    pc = "done" =>
        \A i \in 1..Len(data) :
            (Inverted(data[i]) \/ DtLt(t1, t0)) =>
                data[i] \notin Range(candidates)

\* C10 as amended: when t0 <= t1, a record with start_validity >
\* stop_validity is never retained, and a call in which every record is so
\* inverted fails with the ValidityError.
C10_InvertedRecordNeverCovers ==
    (pc = "done" /\ ~DtLt(t1, t0)) =>
        /\ \A i \in 1..Len(data) :
               Inverted(data[i]) => data[i] \notin Range(candidates)
        /\ (\A i \in 1..Len(data) : Inverted(data[i])) =>
               /\ selected.kind = "raise"
               /\ selected.exc.type = "ValidityError"

\* inverted records only, an ordered target, and the selection fails
C10_Witness ==
    /\ pc = "done"
    /\ Len(data) >= 1
    /\ \A i \in 1..Len(data) : Inverted(data[i])
    /\ ~DtLt(t1, t0)
    /\ candidates = <<>>
    /\ selected.kind = "raise"

-----------------------------------------------------------------------------
(* Properties of get_validity_info, under SpecParse *)

\* the identifiers of the pool that cannot be interpreted
Uninterpretable ==
    {BuildC(c) : c \in Unmatched \cup Uncalendar} \cup {PrefixPOEORB}

\* a prefix the pattern accepts: S1 and one or more word characters
FamilyPrefix(p) ==
    /\ Len(p) >= 3
    /\ p[1] = "S"
    /\ p[2] = "1"
    /\ \A k \in 3..Len(p) : IsWord(p[k])

\* the number of word characters a text begins with
RECURSIVE WordPrefix(_)
WordPrefix(t) ==
    IF t = <<>> \/ ~IsWord(Head(t)) THEN 0 ELSE 1 + WordPrefix(Tail(t))

\* the length of "_V<start>_<stop>"
FieldsTail == 2 + 15 + 1 + 15

\* C4 as claimed: when the k-th identifier is the first that cannot be
\* interpreted, the call fails with a ValueError that identifies that
\* identifier, and returns no record.
C4_FailFastIdentifies ==
    pc = "done" =>
        \A k \in 1..Len(products) :
            (/\ products[k] \in Uninterpretable
             /\ \A j \in 1..(k - 1) : products[j] \notin Uninterpretable) =>
                /\ out.kind = "raise"
                /\ out.value = <<>>
                /\ out.exc.type = "ValueError"
                /\ out.exc.arg = products[k]

\* C5 as claimed: every identifier built from a triple of timestamps with a
\* family prefix, whatever its trailing part, parses to exactly that triple
\* and to the unchanged identifier.
C5_RoundTrip ==
    pc = "done" =>
        /\ (\A i \in 1..Len(products) :
               \E c \in WellBuilt : products[i] = BuildC(c)) =>
               out.kind = "return"
        /\ out.kind = "return" =>
               \A i \in 1..Len(products) : \A c \in WellBuilt :
                   products[i] = BuildC(c) =>
                       out.value[i] =
                           ValidityInfo(products[i], c.gen, c.start, c.stop)

\* the built identifiers whose prefix is S1\w+ and whose trailing part
\* begins with too few word characters to hold a further field group
RoundTrips ==
    {c \in WellBuilt \cup Unmatched :
        FamilyPrefix(c.prefix) /\ WordPrefix(c.trailing) < FieldsTail}

\* C5 as amended: an identifier built from a triple of timestamps, with a
\* prefix S1\w+ and a trailing part that begins with fewer than 33 word
\* characters, parses to exactly that triple (not permuted) and to the
\* unchanged identifier.
C5_RoundTripShortTrailing ==
    pc = "done" =>
        /\ (\A i \in 1..Len(products) :
               \E c \in RoundTrips : products[i] = BuildC(c)) =>
               out.kind = "return"
        /\ out.kind = "return" =>
               \A i \in 1..Len(products) : \A c \in RoundTrips :
                   products[i] = BuildC(c) =>
                       out.value[i] =
                           ValidityInfo(products[i], c.gen, c.start, c.stop)

\* a batch of an identifier with the trailing ".EOF" and one whose prefix
\* holds a field group of its own has been parsed
C5_Witness ==
    /\ pc = "done"
    /\ out.kind = "return"
    /\ Len(products) = 2
    /\ products[1] =
           Build(PrefixPOEORB, GenD, StartD, StopD, SuffixEOF)
    /\ products[2] =
           Build(Build(PrefixPOEORB, Gen21, Start21, Stop21, <<>>),
                 GenD, StartD, StopD, <<>>)
    /\ out.value[2].generation_date = GenD

\* C6: on success the output has one record per input identifier, in the
\* order of the input, each with its input string as product_id; duplicates
\* stay duplicates.
C6_OnePerInput ==
    (pc = "done" /\ out.kind = "return") =>
        /\ Len(out.value) = Len(products)
        /\ \A i \in 1..Len(products) : out.value[i].product_id = products[i]

\* a batch that holds the same identifier twice has been parsed
C6_Witness ==
    /\ pc = "done"
    /\ out.kind = "return"
    /\ Len(products) = 2
    /\ products[1] = products[2]
    /\ Len(out.value) = 2
    /\ out.value[1] = out.value[2]

-----------------------------------------------------------------------------
(* Properties of the orchestration, under Spec *)

\* the product the latest _select_orbit call was made for
SelectedFor == args_products[Len(select_log)]

\* the validity parsed from identifier contains the window of product
CoversWindow(identifier, product) ==
    /\ ParseOne(identifier).kind = "return"
    /\ Contains(ParseOne(identifier).value,
                product.start_time, product.stop_time)

\* the validity parsed from identifier overlaps the window of product
\* without containing it
CoversPart(identifier, product) ==
    /\ ParseOne(identifier).kind = "return"
    /\ ~Contains(ParseOne(identifier).value,
                 product.start_time, product.stop_time)
    /\ DtLe(ParseOne(identifier).value.start_validity, product.stop_time)
    /\ DtLe(product.start_time, ParseOne(identifier).value.stop_validity)

\* C7: the catalog is asked, before the selection, for the window of the
\* product widened by one day on each side; the selection is then made with
\* the unwidened window of the product, so that every entry returned covers
\* that window, and a candidate that covers it is not lost to the margins.
C7_MarginsOnlyInQuery ==
    /\ Len(api_log) = Len(select_log) + (IF pc = "select" THEN 1 ELSE 0)
    /\ \A n \in 1..Len(api_log) :
         api_log[n].date = <<MinusDays(args_products[n].start_time, 1),
                              PlusDays(args_products[n].stop_time, 1)>>
    /\ \A n \in 1..Len(select_log) :
         select_log[n] = <<args_products[n].start_time,
                           args_products[n].stop_time>>
    /\ (pc # "select" /\ last.kind = "return") =>
         /\ last.value # <<>>
         /\ \A n \in 1..Len(last.value) :
              /\ last.value[n] \in Range(answer)
              /\ CoversWindow(last.value[n].identifier, SelectedFor)
    /\ (pc # "select" /\ last.kind = "raise" /\ out.kind = "return") =>
         \A n \in 1..Len(answer) :
             ~CoversWindow(answer[n].identifier, SelectedFor)

\* the answer held an orbit file that covers only part of the window and
\* one that covers it, and only the latter was returned
C7_Witness ==
    /\ pc = "assert"
    /\ last.kind = "return"
    /\ \E n \in 1..Len(answer) :
         CoversPart(answer[n].identifier, SelectedFor)
    /\ Len(last.value) = 1
    /\ last.value[1].identifier = OrbitJun2
    /\ api_log[Len(api_log)].date[1] = <<2020, 6, 1, 0, 59, 30>>

\* C8 as claimed: the failure of the parse and the failure of the selection
\* are such that a handler written for one is not triggered by the other.
C8_HandlersDisjoint ==
    (pc = "failed" /\ last.kind = "raise") =>
        IF out.kind = "raise"
        THEN ~Catches("ValidityError", error.type)
        ELSE ~Catches("ValueError", error.type)

\* C8 as amended: the parse failure is a ValueError and the failure of the
\* selection a ValidityError, raised only when no candidate covers; a
\* handler for ValidityError is not triggered by the parse failure, while a
\* handler for ValueError is triggered by both.
C8_SelectionErrorDistinct ==
    (pc = "failed" /\ last.kind = "raise") =>
        /\ error = last.exc
        /\ IF out.kind = "raise"
           THEN /\ error.type = "ValueError"
                /\ ~Catches("ValidityError", error.type)
                /\ Catches("ValueError", error.type)
           ELSE /\ error.type = "ValidityError"
                /\ candidates = <<>>
                /\ Catches("ValidityError", error.type)
                /\ Catches("ValueError", error.type)

\* the pipeline failed on an identifier that does not parse, after an
\* identifier that does
C8_Witness ==
    /\ pc = "failed"
    /\ last.kind = "raise"
    /\ out.kind = "raise"
    /\ Len(products) >= 2
    /\ error.arg = PrefixOPER

\* C9 as claimed: after the loop, when every selection succeeded, the
\* accumulated mapping holds exactly one entry per requested product.
C9_OneEntryPerProduct ==
    pc = "assert" => Cardinality(DOMAIN query) = Len(args_products)

====
